---------------------------- MODULE Spec2Model ----------------------------
(***************************************************************************)
(* geocoder::HierarchyReader (src/geocoder/hierarchy_reader.cpp).          *)
(*                                                                         *)
(* A reader owns a line stream (m_fileStm) and a mutex (m_mutex).          *)
(* ReadEntries clamps the number of readers, spawns one thread per reader  *)
(* running ReadEntryMap, joins them and merges their multimaps with        *)
(* UnionEntries.  Workers are numbered 1..readersCount here (t+1 for the   *)
(* C++ index t).                                                           *)
(*                                                                         *)
(* eye::Eye (src/metrics/eye.cpp) is modelled at the end of the module.    *)
(***************************************************************************)
EXTENDS Integers, Sequences, FiniteSets, TLC

(***************************************************************************)
(* Bounds of the model.                                                    *)
(***************************************************************************)
\* longest input file, in lines
MaxLines == 2
\* operations registered with Eye in one behaviour
MaxEyeOps == 2
\* largest readersCount a caller of the concurrent specification asks for
MaxRequested == 2
\* ReadEntries calls made in one behaviour
MaxCalls == 2
\* width, in bits, of the identifier types (int64_t / uint64_t scaled down)
IdBits == 8
\* UnionEntries on its own: number of partitions and entries per partition
MaxParts == 2
MaxPartLen == 2

\* hierarchy_reader.cpp:28  min(readersCount, size_t{8})
kMaxReaders == 8

VARIABLES
  lines,         \* the file behind m_fileStm: a sequence of lines
  cursor,        \* m_fileStm's position: lines handed out so far
  m_mutex,       \* 0 when free, else the worker holding it
  pc,            \* the calling thread: "idle", "spawn", "union"
  requested,     \* ReadEntries' argument readersCount, as passed
  readersCount,  \* readersCount after line 28
  t,             \* the spawn loop's index (line 31)
  wpc,           \* |tasks|: each thread's position in ReadEntryMap
  line,          \* each thread's local |line|
  localEntries,  \* each thread's local multimap
  taskEntries,   \* vector of multimaps; UnionEntries' entryParts
  entries,       \* UnionEntries' output vector
  stats,         \* the caller's ParsingStats
  calls,         \* ReadEntries calls started
  stats0,        \* history: stats when the current call started
  cursor0,       \* history: cursor when the current call started
  parts0,        \* history: entryParts when UnionEntries started
  hist,          \* history: one record per returned call
  reader,        \* history: how many readers have been constructed
  eye            \* metrics/eye.cpp: the state of Eye (see below)

vars == <<lines, cursor, m_mutex, pc, requested, readersCount, t, wpc, line,
          localEntries, taskEntries, entries, stats, calls, stats0, cursor0,
          parts0, hist, reader, eye>>

\* the variables of the HierarchyReader
readerVars == <<lines, cursor, m_mutex, pc, requested, readersCount, t, wpc,
                line, localEntries, taskEntries, entries, stats, calls,
                stats0, cursor0, parts0, hist, reader>>

\* the threads of |tasks|
Workers == 1..Len(wpc)

Min(a, b) == IF a < b THEN a ELSE b

(***************************************************************************)
(* Lines.  A line is described by what ReadEntryMap asks of it: whether it *)
(* is empty, whether it holds a space, whether the token before the space  *)
(* is a decimal integer and which, and what the text after the space       *)
(* decodes to.                                                             *)
(***************************************************************************)
Json(ok, type, name) == [ok |-> ok, type |-> type, name |-> name]

NoJson == Json(FALSE, "A", 0)

MkLine(empty, sep, num, val, json) ==
  [empty |-> empty, sep |-> sep, num |-> num, val |-> val, json |-> json]

\* ""
EmptyLine == MkLine(TRUE, FALSE, FALSE, 0, NoJson)
\* "garbage": no separator
Garbage == MkLine(FALSE, FALSE, FALSE, 0, NoJson)
\* "notanumber {}": a separator, the token is no integer
NotANumber == MkLine(FALSE, TRUE, FALSE, 0, Json(TRUE, "A", 1))
\* "<v> <json>"
Rec(v, type) == MkLine(FALSE, TRUE, TRUE, v, Json(TRUE, type, 1))
\* "<v> {": the payload does not decode
BadJson(v) == MkLine(FALSE, TRUE, TRUE, v, NoJson)

Alphabet ==
  {EmptyLine, Garbage, NotANumber, Rec(50, "A"), Rec(50, "B"), Rec(100, "A"),
   Rec(50, "Count"), BadJson(50)}

Files == UNION {[1..n -> Alphabet] : n \in 0..MaxLines}

(***************************************************************************)
(* ParsingStats and Entry.                                                 *)
(***************************************************************************)
ZeroStats == [m_numLoaded |-> 0, m_badOsmIds |-> 0, m_badJsons |-> 0]

\* ++counter on a counter of the shared ParsingStats
Increment(s, field) == [s EXCEPT ![field] = @ + 1]

Entry(id, type, name) == [m_osmId |-> id, m_type |-> type, m_name |-> name]

\* Hierarchy::Entry::operator<
EntryLess(a, b) == a.m_osmId < b.m_osmId

\* value_type of multimap<GeoObjectId, Entry>
Pair(k, e) == [first |-> k, second |-> e]

\* std::pair's operator<
PairLess(p, q) ==
  \/ p.first < q.first
  \/ ~(q.first < p.first) /\ EntryLess(p.second, q.second)

(***************************************************************************)
(* Identifier decoding (lines 90-103).                                     *)
(***************************************************************************)
TwoPow(n) == 2 ^ n

\* strings::to_any(token, int64_t &): the token is an integer that fits
ToAnyOk(l) ==
  /\ l.num
  /\ -TwoPow(IdBits - 1) <= l.val
  /\ l.val <= TwoPow(IdBits - 1) - 1

\* line 92: i == npos || !to_any(...)
BadOsmId(l) == ~l.sep \/ ~ToAnyOk(l)

\* a slip in line 102: the signed value is kept as the identifier
CastKeepsSign(v) == v

\* line 102: static_cast<uint64_t>(encodedId)
CastUnsigned(v) == v % TwoPow(IdBits)

(***************************************************************************)
(* multimap operations.                                                    *)
(***************************************************************************)
\* multimap::emplace: after the last element whose key is not greater
UpperBound(m, k) == Cardinality({i \in 1..Len(m) : ~(k < m[i].first)})

MultimapEmplace(m, k, e) ==
  LET n == UpperBound(m, k) IN
  SubSeq(m, 1, n) \o <<Pair(k, e)>> \o SubSeq(m, n + 1, Len(m))

\* multimap::erase(begin())
EraseBegin(m) == Tail(m)

\* vector::erase(it)
EraseAt(v, k) == SubSeq(v, 1, k - 1) \o SubSeq(v, k + 1, Len(v))

\* operator< of two multimaps: std::lexicographical_compare
RECURSIVE LexLess(_, _)
LexLess(a, b) ==
  IF b = <<>> THEN FALSE
  ELSE IF a = <<>> THEN TRUE
  ELSE IF PairLess(a[1], b[1]) THEN TRUE
  ELSE IF PairLess(b[1], a[1]) THEN FALSE
  ELSE LexLess(Tail(a), Tail(b))

\* std::min_element's scan from position i with |smallest| the best so far
RECURSIVE MinScan(_, _, _)
MinScan(v, i, smallest) ==
  IF i > Len(v) THEN smallest
  ELSE MinScan(v, i + 1, IF LexLess(v[i], v[smallest]) THEN i ELSE smallest)

\* a slip in line 57: the front multimap is taken, whatever the others hold
FrontElement(v) == 1

\* line 57: min_element(entryParts.begin(), entryParts.end())
MinElement(v) == MinScan(v, 2, 1)

(***************************************************************************)
(* Initial states.                                                         *)
(***************************************************************************)
NoLine == EmptyLine

\* Eye is not constructed in the behaviours of the HierarchyReader
NoEye == [epc |-> "none"]

InitReader(file) ==
  /\ lines = file
  /\ cursor = 0
  /\ m_mutex = 0
  /\ pc = "idle"
  /\ requested = 0
  /\ readersCount = 0
  /\ t = 0
  /\ wpc = <<>>
  /\ line = <<>>
  /\ localEntries = <<>>
  /\ taskEntries = <<>>
  /\ entries = <<>>
  /\ stats = ZeroStats
  /\ calls = 0
  /\ stats0 = ZeroStats
  /\ cursor0 = 0
  /\ parts0 = <<>>
  /\ hist = <<>>
  /\ reader = 1

\* a reader constructed over any file of the bounded set (lines 17-22)
Init == \E file \in Files : InitReader(file) /\ eye = NoEye

(***************************************************************************)
(* ReadEntries (lines 24-41).                                              *)
(***************************************************************************)
\* a slip in line 28: the bound is dropped
ClampReadersOff(n) == n

\* line 28
ClampReaders(n) == Min(n, kMaxReaders)

\* lines 24-30: entry, clamp, taskEntries(readersCount)
ReadEntries(n) ==
  /\ pc = "idle"
  /\ calls < MaxCalls
  /\ requested' = n
  /\ readersCount' = ClampReaders(n)
  /\ taskEntries' = [i \in 1..ClampReaders(n) |-> <<>>]
  /\ t' = 0
  /\ pc' = "spawn"
  /\ entries' = <<>>
  /\ wpc' = <<>>
  /\ line' = <<>>
  /\ localEntries' = <<>>
  /\ calls' = calls + 1
  /\ stats0' = stats
  /\ cursor0' = cursor
  /\ parts0' = <<>>
  /\ UNCHANGED <<lines, cursor, m_mutex, stats, hist,
                 reader, eye>>

\* lines 31-32: one iteration of the spawn loop; the thread starts at the
\* head of ReadEntryMap's loop with an empty |line| and |localEntries|
Spawn ==
  /\ pc = "spawn"
  /\ t < readersCount
  /\ wpc' = Append(wpc, "lock")
  /\ line' = Append(line, NoLine)
  /\ localEntries' = Append(localEntries, <<>>)
  /\ t' = t + 1
  /\ UNCHANGED <<lines, cursor, m_mutex, pc, requested, readersCount,
                 taskEntries, entries, stats, calls, stats0, cursor0, parts0,
                 hist,
                 reader, eye>>

\* a slip in lines 34-35: the threads are not joined
JoinNoWait ==
  /\ pc = "spawn"
  /\ t = readersCount
  /\ pc' = "union"
  /\ entries' = <<>>
  /\ parts0' = taskEntries
  /\ UNCHANGED <<lines, cursor, m_mutex, requested, readersCount, t, wpc,
                 line, localEntries, taskEntries, stats, calls, stats0,
                 cursor0, hist, reader, eye>>

\* lines 34-40: every thread joined, UnionEntries entered (lines 45-53)
Join ==
  /\ pc = "spawn"
  /\ t = readersCount
  /\ \A w \in Workers : wpc[w] = "done"
  /\ pc' = "union"
  /\ entries' = <<>>
  /\ parts0' = taskEntries
  /\ UNCHANGED <<lines, cursor, m_mutex, requested, readersCount, t, wpc,
                 line, localEntries, taskEntries, stats, calls, stats0,
                 cursor0, hist,
                 reader, eye>>

(***************************************************************************)
(* UnionEntries (lines 43-70).                                             *)
(***************************************************************************)
\* lines 59-63: the entry taken from minPart, if it holds one
TakeFrom(part, out) ==
  IF Len(part) > 0 THEN Append(out, part[1].second) ELSE out

\* lines 59-63: minPart afterwards
Rest(part) == IF Len(part) > 0 THEN EraseBegin(part) ELSE part

\* a slip in lines 65-66: minPart is erased whether or not it is empty
DropAlways(v, k, part) == EraseAt(v, k)

\* lines 65-66: entryParts afterwards
DropIfEmpty(v, k, part) ==
  IF part = <<>> THEN EraseAt(v, k) ELSE [v EXCEPT ![k] = part]

\* lines 55-67: one iteration of the merge loop
UnionStep ==
  /\ pc = "union"
  /\ Len(taskEntries) > 0
  /\ LET minPart == MinElement(taskEntries) IN
       /\ entries' = TakeFrom(taskEntries[minPart], entries)
       /\ taskEntries' =
            DropIfEmpty(taskEntries, minPart, Rest(taskEntries[minPart]))
  /\ UNCHANGED <<lines, cursor, m_mutex, pc, requested, readersCount, t, wpc,
                 line, localEntries, stats, calls, stats0, cursor0, parts0,
                 hist,
                 reader, eye>>

\* a run is fresh when it starts on a reader that has handed out nothing,
\* with zeroed stats
Fresh == cursor0 = 0 /\ stats0 = ZeroStats

\* lines 55, 69 and 40: the loop ends, the vector is returned
Return ==
  /\ pc = "union"
  /\ Len(taskEntries) = 0
  /\ pc' = "idle"
  /\ hist' = Append(hist, [requested |-> requested, fresh |-> Fresh,
                           entries |-> entries, stats |-> stats,
                           stats0 |-> stats0, reader |-> reader])
  /\ UNCHANGED <<lines, cursor, m_mutex, requested, readersCount, t, wpc,
                 line, localEntries, taskEntries, entries, stats, calls,
                 stats0, cursor0, parts0, reader, eye>>

(***************************************************************************)
(* ReadEntryMap (lines 72-119), one worker.                                *)
(***************************************************************************)
\* a slip in line 81: the guard is missing, the thread does not wait
LockNoWait(w) ==
  /\ w \in Workers
  /\ wpc[w] = "lock"
  /\ m_mutex' = w
  /\ wpc' = [wpc EXCEPT ![w] = "getline"]
  /\ UNCHANGED <<lines, cursor, pc, requested, readersCount, t, line,
                 localEntries, taskEntries, entries, stats, calls, stats0,
                 cursor0, parts0, hist, reader, eye>>

\* line 81: lock_guard<mutex>(m_mutex)
Lock(w) ==
  /\ w \in Workers
  /\ wpc[w] = "lock"
  /\ m_mutex = 0
  /\ m_mutex' = w
  /\ wpc' = [wpc EXCEPT ![w] = "getline"]
  /\ UNCHANGED <<lines, cursor, pc, requested, readersCount, t, line,
                 localEntries, taskEntries, entries, stats, calls, stats0,
                 cursor0, parts0, hist,
                 reader, eye>>

\* a slip in lines 80-85: the braces are missing, the guard lives on while
\* the line is handled
GetLineHoldsLock(w) ==
  /\ w \in Workers
  /\ wpc[w] = "getline"
  /\ IF cursor < Len(lines)
       THEN /\ line' = [line EXCEPT ![w] = lines[cursor + 1]]
            /\ cursor' = cursor + 1
            /\ wpc' = [wpc EXCEPT ![w] = "parse"]
            /\ UNCHANGED m_mutex
       ELSE /\ wpc' = [wpc EXCEPT ![w] = "move"]
            /\ m_mutex' = 0
            /\ UNCHANGED <<line, cursor>>
  /\ UNCHANGED <<lines, pc, requested, readersCount, t, localEntries,
                 taskEntries, entries, stats, calls, stats0, cursor0, parts0,
                 hist, reader, eye>>

\* a slip in lines 80-85: the break leaves the loop with the mutex held
GetLineKeepsLock(w) ==
  /\ w \in Workers
  /\ wpc[w] = "getline"
  /\ IF cursor < Len(lines)
       THEN /\ line' = [line EXCEPT ![w] = lines[cursor + 1]]
            /\ cursor' = cursor + 1
            /\ wpc' = [wpc EXCEPT ![w] = "parse"]
            /\ m_mutex' = 0
       ELSE /\ wpc' = [wpc EXCEPT ![w] = "move"]
            /\ UNCHANGED <<line, cursor, m_mutex>>
  /\ UNCHANGED <<lines, pc, requested, readersCount, t, localEntries,
                 taskEntries, entries, stats, calls, stats0, cursor0, parts0,
                 hist, reader, eye>>

\* lines 83-85: getline under the lock; the guard's scope ends either way
GetLine(w) ==
  /\ w \in Workers
  /\ wpc[w] = "getline"
  /\ m_mutex' = 0
  /\ IF cursor < Len(lines)
       THEN /\ line' = [line EXCEPT ![w] = lines[cursor + 1]]
            /\ cursor' = cursor + 1
            /\ wpc' = [wpc EXCEPT ![w] = "parse"]
       ELSE /\ wpc' = [wpc EXCEPT ![w] = "move"]
            /\ UNCHANGED <<line, cursor>>
  /\ UNCHANGED <<lines, pc, requested, readersCount, t, localEntries,
                 taskEntries, entries, stats, calls, stats0, cursor0, parts0,
                 hist,
                 reader, eye>>

\* Entry::DeserializeFromJSON(line, stats): the stats afterwards
DeserializeStats(l, s) ==
  IF l.json.ok THEN s ELSE Increment(s, "m_badJsons")

\* a slip in lines 92-97: a line without separator is skipped uncounted
StatsAfterSilent(l, s) ==
  IF l.empty THEN s
  ELSE IF ~l.sep THEN s
  ELSE IF BadOsmId(l) THEN Increment(s, "m_badOsmIds")
  ELSE IF ~l.json.ok THEN DeserializeStats(l, s)
  ELSE IF l.json.type = "Count" THEN s
  ELSE Increment(s, "m_numLoaded")

\* a slip in lines 87-88: the empty line falls through to the separator test
StatsAfterBlank(l, s) ==
  IF BadOsmId(l) THEN Increment(s, "m_badOsmIds")
  ELSE IF ~l.json.ok THEN DeserializeStats(l, s)
  ELSE IF l.json.type = "Count" THEN s
  ELSE Increment(s, "m_numLoaded")

\* lines 87-115: the stats after the line is handled
StatsAfter(l, s) ==
  IF l.empty THEN s
  ELSE IF BadOsmId(l) THEN Increment(s, "m_badOsmIds")
  ELSE IF ~l.json.ok THEN DeserializeStats(l, s)
  ELSE IF l.json.type = "Count" THEN s
  ELSE Increment(s, "m_numLoaded")

\* a slip in lines 108-109: the Type::Count test is missing
LoadedWithCount(l) ==
  /\ ~l.empty
  /\ ~BadOsmId(l)
  /\ l.json.ok

\* lines 87-109: the line reaches line 111
Loaded(l) ==
  /\ ~l.empty
  /\ ~BadOsmId(l)
  /\ l.json.ok
  /\ l.json.type # "Count"

\* lines 100-105: the entry built from the line
EntryOf(l) == Entry(CastUnsigned(l.val), l.json.type, l.json.name)

\* lines 87-115: localEntries after the line is handled
EntriesAfter(l, m) ==
  IF Loaded(l) THEN MultimapEmplace(m, CastUnsigned(l.val), EntryOf(l)) ELSE m

\* a slip in line 96: break instead of continue
ProcessLineBreak(w) ==
  /\ w \in Workers
  /\ wpc[w] = "parse"
  /\ stats' = StatsAfter(line[w], stats)
  /\ localEntries' =
       [localEntries EXCEPT ![w] = EntriesAfter(line[w], localEntries[w])]
  /\ line' = [line EXCEPT ![w] = NoLine]
  /\ wpc' = [wpc EXCEPT ![w] =
               IF ~line[w].empty /\ BadOsmId(line[w]) THEN "move" ELSE "lock"]
  /\ UNCHANGED <<lines, cursor, m_mutex, pc, requested, readersCount, t,
                 taskEntries, entries, calls, stats0, cursor0, parts0, hist,
                 reader, eye>>

\* lines 87-116: one line handled outside the lock, back to the loop's head
ProcessLine(w) ==
  /\ w \in Workers
  /\ wpc[w] = "parse"
  /\ stats' = StatsAfter(line[w], stats)
  /\ localEntries' =
       [localEntries EXCEPT ![w] = EntriesAfter(line[w], localEntries[w])]
  /\ line' = [line EXCEPT ![w] = NoLine]
  /\ wpc' = [wpc EXCEPT ![w] = "lock"]
  /\ UNCHANGED <<lines, cursor, m_mutex, pc, requested, readersCount, t,
                 taskEntries, entries, calls, stats0, cursor0, parts0, hist,
                 reader, eye>>

\* a slip in line 32: every thread is given the first slot (taskEntries[0])
MoveEntriesToFirst(w) ==
  /\ w \in Workers
  /\ wpc[w] = "move"
  /\ taskEntries' = [taskEntries EXCEPT ![1] = localEntries[w]]
  /\ localEntries' = [localEntries EXCEPT ![w] = <<>>]
  /\ wpc' = [wpc EXCEPT ![w] = "done"]
  /\ UNCHANGED <<lines, cursor, m_mutex, pc, requested, readersCount, t,
                 line, entries, stats, calls, stats0, cursor0, parts0, hist,
                 reader, eye>>

\* line 118: entries = move(localEntries), the thread ends
MoveEntries(w) ==
  /\ w \in Workers
  /\ wpc[w] = "move"
  /\ taskEntries' = [taskEntries EXCEPT ![w] = localEntries[w]]
  /\ localEntries' = [localEntries EXCEPT ![w] = <<>>]
  /\ wpc' = [wpc EXCEPT ![w] = "done"]
  /\ UNCHANGED <<lines, cursor, m_mutex, pc, requested, readersCount, t,
                 line, entries, stats, calls, stats0, cursor0, parts0, hist,
                 reader, eye>>

\* lines 17-22: a new reader over the same file, the caller's stats zeroed
Construct ==
  /\ pc = "idle"
  /\ 0 < calls
  /\ calls < MaxCalls
  /\ cursor # 0 \/ stats # ZeroStats
  /\ cursor' = 0
  /\ m_mutex' = 0
  /\ stats' = ZeroStats
  /\ reader' = reader + 1
  /\ UNCHANGED <<lines, pc, requested, readersCount, t, wpc, line,
                 localEntries, taskEntries, entries, calls, stats0, cursor0,
                 parts0, hist, eye>>

\* the ids a thread of |tasks| can have (line 28 allows no more)
ThreadIds == 1..kMaxReaders

\* one call's steps: the calling thread's and every spawned thread's
Run ==
  \/ Spawn
  \/ Join
  \/ UnionStep
  \/ Return
  \/ \E w \in ThreadIds : Lock(w)
  \/ \E w \in ThreadIds : GetLine(w)
  \/ \E w \in ThreadIds : ProcessLine(w)
  \/ \E w \in ThreadIds : MoveEntries(w)

\* the first call on a reader
FirstCall(n) == calls = 0 /\ ReadEntries(n)

\* one call of ReadEntries(n, stats), n in 0..MaxRequested
Next == (\E n \in 0..MaxRequested : FirstCall(n)) \/ Run

Spec == Init /\ [][Next]_vars

(***************************************************************************)
(* UnionEntries on its own: entryParts is any vector of at most MaxParts   *)
(* multimaps of at most MaxPartLen entries each, every multimap ordered by *)
(* key as a multimap is.  Every entry carries a name of its own, so that   *)
(* the output tells which entry of which multimap went where.              *)
(***************************************************************************)
UnionIds == {1, 2, 3}

IsOrdered(ks) == \A i \in 1..(Len(ks) - 1) : ks[i] <= ks[i + 1]

KeySeqs ==
  {ks \in UNION {[1..n -> UnionIds] : n \in 0..MaxPartLen} : IsOrdered(ks)}

NameAt(i, j) == (i - 1) * MaxPartLen + j

PartOf(ks, i) ==
  [j \in 1..Len(ks) |-> Pair(ks[j], Entry(ks[j], "A", NameAt(i, j)))]

\* the vector built from one key sequence per multimap
PartVector(kss) == [i \in 1..Len(kss) |-> PartOf(kss[i], i)]

InitUnion ==
  \E n \in 0..MaxParts : \E kss \in [1..n -> KeySeqs] :
    LET parts == PartVector(kss) IN
    /\ InitReader(<<>>)!1
    /\ InitReader(<<>>)!2
    /\ InitReader(<<>>)!3
    /\ pc = "union"
    /\ requested = Len(parts)
    /\ readersCount = Len(parts)
    /\ t = Len(parts)
    /\ wpc = [w \in 1..Len(parts) |-> "done"]
    /\ line = [w \in 1..Len(parts) |-> NoLine]
    /\ localEntries = [w \in 1..Len(parts) |-> <<>>]
    /\ taskEntries = parts
    /\ entries = <<>>
    /\ stats = ZeroStats
    /\ calls = 1
    /\ stats0 = ZeroStats
    /\ cursor0 = 0
    /\ parts0 = parts
    /\ hist = <<>>
    /\ reader = 1
    /\ eye = NoEye

NextUnion == UnionStep \/ Return

SpecUnion == InitUnion /\ [][NextUnion]_vars

(***************************************************************************)
(* Properties of UnionEntries, checked under SpecUnion.                    *)
(***************************************************************************)
Returned == pc = "idle" /\ calls > 0

RECURSIVE SumSizes(_)
SumSizes(v) == IF v = <<>> THEN 0 ELSE Len(v[1]) + SumSizes(Tail(v))

\* how often entry e occurs in a vector of entries
Count(e, es) == Cardinality({i \in 1..Len(es) : es[i] = e})

\* how often entry e occurs in a vector of multimaps
RECURSIVE CountIn(_, _)
CountIn(e, v) ==
  IF v = <<>> THEN 0
  ELSE Cardinality({i \in 1..Len(v[1]) : v[1][i].second = e})
         + CountIn(e, Tail(v))

EntriesOf(v) ==
  UNION {{v[i][j].second : j \in 1..Len(v[i])} : i \in 1..Len(v)}

KeysOf(v) == UNION {{v[i][j].first : j \in 1..Len(v[i])} : i \in 1..Len(v)}

\* C1: UnionEntries loses and duplicates nothing: all through the merge the
\* output and the multimaps still to merge hold, entry for entry, what
\* entryParts held at the start, so the returned vector has the summed size
\* of the multimaps and is their union as a multiset.
UnionLosesNothing ==
  pc \in {"union", "idle"} =>
    /\ Len(entries) + SumSizes(taskEntries) = SumSizes(parts0)
    /\ \A e \in EntriesOf(parts0) \cup {entries[i] : i \in 1..Len(entries)} :
         Count(e, entries) + CountIn(e, taskEntries) = CountIn(e, parts0)
    /\ Returned =>
         /\ Len(entries) = SumSizes(parts0)
         /\ taskEntries = <<>>

\* C1 witness: a merge has returned the four entries of two multimaps
UnionLosesNothingWitness ==
  /\ Returned
  /\ Len(parts0) = 2
  /\ \A i \in 1..2 : Len(parts0[i]) = 2
  /\ Len(entries) = 4

\* C1 witness for the degenerate inputs: no multimaps, and empty multimaps
UnionOfNothingReturns ==
  /\ Returned
  /\ parts0 \in {<<>>, <<<<>>, <<>>>>}
  /\ entries = <<>>

\* C2: the output of UnionEntries is non-decreasing by identifier, and the
\* entry appended last is no greater than any key still held in a multimap.
UnionOutputOrdered ==
  pc \in {"union", "idle"} =>
    /\ \A i \in 1..(Len(entries) - 1) :
         entries[i].m_osmId <= entries[i + 1].m_osmId
    /\ entries # <<>> =>
         \A k \in KeysOf(taskEntries) : entries[Len(entries)].m_osmId <= k

\* the multimap of entryParts an entry of SpecUnion came from
PartIndexOf(e) == ((e.m_name - 1) \div MaxPartLen) + 1

\* C2 witness: a returned merge that went back and forth between multimaps
UnionOutputOrderedWitness ==
  /\ Returned
  /\ Len(entries) = 4
  /\ PartIndexOf(entries[1]) = 2
  /\ PartIndexOf(entries[2]) = 1
  /\ PartIndexOf(entries[3]) = 1
  /\ PartIndexOf(entries[4]) = 2
  /\ entries[1].m_osmId < entries[2].m_osmId
  /\ entries[3].m_osmId < entries[4].m_osmId

\* C3: entries of the output that share an identifier appear in ascending
\* order of the index of the multimap they came from.
TieBreakByPartitionIndex ==
  pc \in {"union", "idle"} =>
    \A i, j \in 1..Len(entries) :
      (i < j /\ entries[i].m_osmId = entries[j].m_osmId) =>
        PartIndexOf(entries[i]) <= PartIndexOf(entries[j])


(***************************************************************************)
(* The clamp of readersCount: one call on a short file, with any request   *)
(* around the limit of line 28.                                            *)
(***************************************************************************)
ClampRequests == {0, 1, kMaxReaders + 1, 20}

ClampFiles == {<<>>, <<Rec(50, "A")>>}

InitClamp == \E file \in ClampFiles : InitReader(file) /\ eye = NoEye

NextClamp == (\E n \in ClampRequests : FirstCall(n)) \/ Run

SpecClamp == InitClamp /\ [][NextClamp]_vars

(***************************************************************************)
(* Several calls in a row: after a call has returned the caller either     *)
(* calls ReadEntries again on the same reader with the same stats, or      *)
(* constructs a new reader over the same file and zeroes its stats.        *)
(***************************************************************************)
RunsAlphabet == {Garbage, Rec(50, "A"), Rec(50, "B")}

RunsFiles == UNION {[1..n -> RunsAlphabet] : n \in 0..MaxLines}

InitRuns == \E file \in RunsFiles : InitReader(file) /\ eye = NoEye

NextRuns ==
  \/ \E n \in 0..MaxRequested : ReadEntries(n)
  \/ Run
  \/ Construct

SpecRuns == InitRuns /\ [][NextRuns]_vars

(***************************************************************************)
(* Properties of one ReadEntries call, checked under Spec, SpecRuns and    *)
(* SpecClamp.                                                              *)
(***************************************************************************)
\* what a single reader makes of the lines ls, starting from multimap m
RECURSIVE ReadAll(_, _)
ReadAll(ls, m) ==
  IF ls = <<>> THEN m ELSE ReadAll(Tail(ls), EntriesAfter(ls[1], m))

\* the stats a single reader ends with on the lines ls, starting from s
RECURSIVE CountAll(_, _)
CountAll(ls, s) ==
  IF ls = <<>> THEN s ELSE CountAll(Tail(ls), StatsAfter(ls[1], s))

Seconds(m) == [i \in 1..Len(m) |-> m[i].second]

\* the vector ReadEntries returns with one reader
OneReaderEntries(ls) == Seconds(ReadAll(ls, <<>>))

\* the lines handed out since the current call started
HandedOut == SubSeq(lines, cursor0 + 1, cursor)

\* With one reader the call does return what OneReaderEntries and CountAll
\* compute (this is what makes them the reference of C4).
OneReaderReference ==
  (Returned /\ readersCount = 1) =>
    /\ entries = OneReaderEntries(HandedOut)
    /\ stats = CountAll(HandedOut, stats0)
    /\ cursor = Len(lines)

\* C4: whatever the number of readers in 1..8 and the interleaving, the call
\* returns the vector and the stats it returns with one reader.
SameAsOneReader ==
  (Returned /\ calls = 1 /\ requested \in 1..kMaxReaders) =>
    /\ entries = OneReaderEntries(lines)
    /\ stats = CountAll(lines, ZeroStats)

\* C5: two runs, each on a newly constructed reader over the same file with
\* the same number of readers and zeroed stats, return the same vector and
\* the same stats.
RunsAgree ==
  \A i, j \in 1..Len(hist) :
    (hist[i].fresh /\ hist[j].fresh /\ hist[i].requested = hist[j].requested)
      => /\ hist[i].entries = hist[j].entries
         /\ hist[i].stats = hist[j].stats

\* a non-empty line that lines 90-97 reject
Rejected(l) == ~l.empty /\ BadOsmId(l)

NumRejected(ls) == Cardinality({i \in 1..Len(ls) : Rejected(ls[i])})

NumLoaded(ls) == Cardinality({i \in 1..Len(ls) : Loaded(ls[i])})

\* rejected lines fetched by a thread and not yet handled
RejectedInHand ==
  Cardinality({w \in Workers : wpc[w] = "parse" /\ Rejected(line[w])})

Expected(e, ls) ==
  Cardinality({i \in 1..Len(ls) : Loaded(ls[i]) /\ EntryOf(ls[i]) = e})

\* the returned vector holds one entry per loadable line of ls and no other
HoldsExactly(ls) ==
  /\ Len(entries) = NumLoaded(ls)
  /\ \A e \in {entries[i] : i \in 1..Len(entries)}
              \cup {EntryOf(ls[i]) : i \in 1..Len(ls)} :
       Count(e, entries) = Expected(e, ls)
  /\ \A i \in 1..(Len(entries) - 1) :
       entries[i].m_osmId <= entries[i + 1].m_osmId

\* C7: after ReadEntries has returned, the vector holds exactly one entry for
\* every line of the file with a decodable identifier, a decodable payload
\* and a type other than Count, and the stats count the file's lines.
ReadEntriesComplete ==
  (Returned /\ calls = 1) =>
    /\ HoldsExactly(lines)
    /\ stats.m_numLoaded = NumLoaded(lines)
    /\ stats.m_badOsmIds = NumRejected(lines)

\* With at least one reader the call is complete in the sense of C7.
CompleteWithAReader ==
  (Returned /\ calls = 1 /\ readersCount >= 1) =>
    /\ HoldsExactly(lines)
    /\ stats.m_numLoaded = NumLoaded(lines)
    /\ stats.m_badOsmIds = NumRejected(lines)

\* C8: a call with readersCount 0 spawns exactly one thread, and the file is
\* read.
ZeroRequestSpawnsOne ==
  (calls = 1 /\ requested = 0 /\ pc # "spawn") =>
    /\ Len(wpc) = 1
    /\ cursor = Len(lines)

\* C9: a call with readersCount above 8 runs with 8 multimaps and 8 threads,
\* and no state of any call holds more than 8 threads.
UpperClamp ==
  /\ Len(wpc) <= kMaxReaders
  /\ (calls > 0 /\ requested > kMaxReaders) =>
       /\ readersCount = kMaxReaders
       /\ pc = "spawn" => Len(taskEntries) = kMaxReaders /\ Len(wpc) = t
       /\ pc # "spawn" => Len(wpc) = kMaxReaders /\ Len(parts0) = kMaxReaders

\* C9 witness: a call asking for 20 readers has returned after 8 threads ran
UpperClampWitness ==
  /\ Returned
  /\ requested = 20
  /\ Len(wpc) = 8
  /\ \A w \in Workers : wpc[w] = "done"
  /\ Len(parts0) = 8
  /\ Len(entries) = 1

\* C10: a thread that handles a non-empty line without separator, or whose
\* token is no identifier, adds one to m_badOsmIds, leaves every other
\* counter, its multimap and the partitions alone, and is back at the head
\* of its loop to fetch the next line.
BadIdLineCounted ==
  [][\A w \in Workers :
       (wpc[w] = "parse" /\ wpc'[w] # "parse" /\ Rejected(line[w])) =>
         /\ stats' = [stats EXCEPT !.m_badOsmIds = @ + 1]
         /\ localEntries' = localEntries
         /\ taskEntries' = taskEntries
         /\ wpc'[w] = "lock"]_vars

\* C10 witness: the only reader has counted the bad first line and fetched
\* the second line
BadIdLineCountedWitness ==
  /\ pc = "spawn"
  /\ readersCount = 1
  /\ cursor = 2
  /\ Rejected(lines[1])
  /\ wpc = <<"parse">>
  /\ stats.m_badOsmIds = 1
  /\ stats.m_numLoaded = 0
  /\ localEntries = <<<<>>>>

(***************************************************************************)
(* Per-line handling (lines 87-116).                                       *)
(***************************************************************************)
\* the payload decodes, to an entry of type Type::Count
Sentinel(l) == ~l.empty /\ ~BadOsmId(l) /\ l.json.ok /\ l.json.type = "Count"

\* the entries of a vector of multimaps have this type nowhere
NoneOfType(v, type) ==
  \A i \in 1..Len(v) : \A j \in 1..Len(v[i]) : v[i][j].second.m_type # type

\* C11: a thread that handles a line whose payload decodes to Type::Count
\* changes no counter, no multimap and no partition, and after every step no
\* local multimap, no partition and no output vector holds an entry of type
\* Type::Count.
SentinelSkipped ==
  [][/\ \A w \in Workers :
          (wpc[w] = "parse" /\ wpc'[w] # "parse" /\ Sentinel(line[w])) =>
            /\ stats' = stats
            /\ localEntries' = localEntries
            /\ taskEntries' = taskEntries
     /\ NoneOfType(localEntries', "Count")
     /\ NoneOfType(taskEntries', "Count")
     /\ \A i \in 1..Len(entries') : entries'[i].m_type # "Count"]_vars

\* C11 witness: the only reader has handled the sentinel first line and the
\* loadable second line, and the call has returned the one entry
SentinelSkippedWitness ==
  /\ Returned
  /\ readersCount = 1
  /\ Len(lines) = 2
  /\ Sentinel(lines[1])
  /\ Loaded(lines[2])
  /\ cursor = 2
  /\ stats = [ZeroStats EXCEPT !.m_numLoaded = 1]
  /\ Len(entries) = 1

\* C12: fetching an empty line moves the stream one line on, and the thread
\* that handles it changes no counter, no multimap and no partition.
BlankLineSkipped ==
  [][\A w \in Workers :
       /\ (wpc[w] = "getline" /\ wpc'[w] = "parse" /\ line'[w].empty) =>
            /\ cursor' = cursor + 1
            /\ lines[cursor'] = line'[w]
       /\ (wpc[w] = "parse" /\ wpc'[w] # "parse" /\ line[w].empty) =>
            /\ stats' = stats
            /\ localEntries' = localEntries
            /\ taskEntries' = taskEntries
            /\ entries' = entries]_vars

\* C12 witness: the only reader has fetched and handled the empty first line
\* and is about to fetch the second
BlankLineSkippedWitness ==
  /\ pc = "spawn"
  /\ readersCount = 1
  /\ Len(lines) = 2
  /\ lines[1].empty
  /\ cursor = 1
  /\ wpc = <<"lock">>
  /\ stats = ZeroStats
  /\ localEntries = <<<<>>>>

(***************************************************************************)
(* Identifier tokens at the edges of the signed and the unsigned range     *)
(* (lines 90-103).  The payload's name tells the sign of the token: 2 for  *)
(* a negative token, 1 otherwise.                                          *)
(***************************************************************************)
IdTokens ==
  {-TwoPow(IdBits - 1) - 1, -TwoPow(IdBits - 1), -1, 0,
   TwoPow(IdBits - 1) - 1, TwoPow(IdBits - 1), TwoPow(IdBits) - 1}

\* "<v> <json>"
Token(v) ==
  MkLine(FALSE, TRUE, TRUE, v, Json(TRUE, "A", IF v < 0 THEN 2 ELSE 1))

IdFiles == UNION {[1..n -> {Token(v) : v \in IdTokens}] : n \in 0..MaxLines}

InitIds == \E file \in IdFiles : InitReader(file) /\ eye = NoEye

NextIds == (\E n \in 0..MaxRequested : FirstCall(n)) \/ Run

SpecIds == InitIds /\ [][NextIds]_vars

\* the token denotes a signed integer of IdBits bits
FitsSigned(v) == -TwoPow(IdBits - 1) <= v /\ v <= TwoPow(IdBits - 1) - 1

\* v modulo 2^IdBits, for v that fits
ModTwoPow(v) == IF v < 0 THEN v + TwoPow(IdBits) ELSE v

\* multimap m2 is m1 with one element of key and identifier k put in
GainedKey(m1, m2, k) ==
  \E j \in 1..Len(m2) :
    /\ m2[j].first = k
    /\ m2[j].second.m_osmId = k
    /\ EraseAt(m2, j) = m1

\* in a sequence of names no negative token's entry precedes another's
NegativeLast(names) ==
  \A i, j \in 1..Len(names) : (i < j /\ names[i] = 2) => names[j] = 2

\* C13: a thread that handles a line with separator and integer token v
\* inserts one entry with key and identifier v mod 2^IdBits, counting
\* nothing, when v fits the signed type, and otherwise adds one to
\* m_badOsmIds and inserts nothing (so for v in 2^(IdBits-1) .. 2^IdBits-1);
\* and in every multimap, partition and output vector the entries of
\* negative tokens come after the entries of all other tokens.
IdentifierDecoded ==
  [][/\ \A w \in Workers :
          (wpc[w] = "parse" /\ wpc'[w] # "parse"
             /\ ~line[w].empty /\ line[w].sep /\ line[w].num
             /\ line[w].json.ok /\ line[w].json.type # "Count") =>
            IF FitsSigned(line[w].val)
              THEN /\ stats'.m_badOsmIds = stats.m_badOsmIds
                   /\ GainedKey(localEntries[w], localEntries'[w],
                                ModTwoPow(line[w].val))
              ELSE /\ stats'.m_badOsmIds = stats.m_badOsmIds + 1
                   /\ localEntries' = localEntries
     /\ \A w \in 1..Len(localEntries') :
          NegativeLast([j \in 1..Len(localEntries'[w]) |->
                          localEntries'[w][j].second.m_name])
     /\ \A i \in 1..Len(taskEntries') :
          NegativeLast([j \in 1..Len(taskEntries'[i]) |->
                          taskEntries'[i][j].second.m_name])
     /\ NegativeLast([j \in 1..Len(entries') |-> entries'[j].m_name])]_vars

\* C13 witness: two readers were given the tokens -1 and 0 in this order
\* and the call returned the entry of 0 before the entry of -1, whose
\* identifier is 2^IdBits - 1
IdentifierDecodedWitness ==
  /\ Returned
  /\ readersCount = 2
  /\ Len(lines) = 2
  /\ lines[1].val = -1
  /\ lines[2].val = 0
  /\ Len(entries) = 2
  /\ entries[1].m_osmId = 0
  /\ entries[2].m_osmId = TwoPow(IdBits) - 1
  /\ entries[2].m_name = 2

(***************************************************************************)
(* Termination.  The threads of |tasks| and the calling thread are         *)
(* scheduled by the system: a call does not stop while one of them can     *)
(* take a step.                                                            *)
(***************************************************************************)
\* one line for each way through the loop body of lines 87-115
LiveAlphabet ==
  {EmptyLine, Garbage, Rec(50, "A"), Rec(50, "Count"), BadJson(50)}

LiveFiles == UNION {[1..n -> LiveAlphabet] : n \in 0..MaxLines}

InitLive == \E file \in LiveFiles : InitReader(file) /\ eye = NoEye

NextLive == (\E n \in 0..MaxRequested : FirstCall(n)) \/ Run

SpecLive == InitLive /\ [][NextLive]_vars /\ WF_vars(Run)

\* C14: a started call returns: every spawned thread has found the stream
\* exhausted and left ReadEntryMap with the mutex free, whatever its lines
\* were, the merge has consumed every partition, and ReadEntries is back at
\* its caller.
CallTerminates ==
  (pc = "spawn") ~>
    (/\ Returned
     /\ Len(wpc) = readersCount
     /\ \A w \in Workers : wpc[w] = "done"
     /\ m_mutex = 0
     /\ taskEntries = <<>>)

\* C14 witness: a call with two readers has returned on a file of two lines,
\* one rejected for its identifier and one for its payload
CallTerminatesWitness ==
  /\ Returned
  /\ readersCount = 2
  /\ \A w \in Workers : wpc[w] = "done"
  /\ m_mutex = 0
  /\ taskEntries = <<>>
  /\ cursor = 2
  /\ stats.m_badOsmIds = 1
  /\ stats.m_badJsons = 1

(***************************************************************************)
(* The guarded fetch (lines 78-85).                                        *)
(***************************************************************************)
\* the threads inside the scope of the lock_guard
InFetch(pcs) == {w \in 1..Len(pcs) : pcs[w] = "getline"}

\* C15: after every step at most one thread is inside the fetch, and it
\* holds the mutex; the stream moves only by one line at a time, and then
\* exactly one thread, inside the fetch, receives exactly the line at the
\* stream's position while no other thread's line or position changes;
\* and a thread leaves the loop only when the stream is exhausted.
LinesHandedOutOnce ==
  [][/\ Cardinality(InFetch(wpc')) <= 1
     /\ \A w \in InFetch(wpc') : m_mutex' = w
     /\ cursor' # cursor =>
          /\ cursor' = cursor + 1
          /\ \E w \in Workers :
               /\ wpc[w] = "getline"
               /\ wpc'[w] = "parse"
               /\ line'[w] = lines[cursor']
               /\ \A v \in Workers \ {w} :
                    line'[v] = line[v] /\ wpc'[v] = wpc[v]
     /\ \A w \in Workers :
          /\ (wpc[w] = "getline" /\ wpc'[w] = "parse") => cursor' = cursor + 1
          /\ (wpc[w] = "getline" /\ wpc'[w] = "move") =>
               cursor = Len(lines) /\ cursor' = cursor]_vars

\* C15 witness: of two threads the second fetched the first line and the
\* first fetched the second line, and the first is inside the fetch again
\* while the second still handles its line
LinesHandedOutOnceWitness ==
  /\ pc = "spawn"
  /\ Len(wpc) = 2
  /\ Len(lines) = 2
  /\ lines[1] # lines[2]
  /\ cursor = 2
  /\ wpc = <<"getline", "parse">>
  /\ m_mutex = 1
  /\ line[2] = lines[1]
  /\ localEntries[1] # <<>>
  /\ localEntries[1][1].second = EntryOf(lines[2])

(***************************************************************************)
(* The join barrier (lines 31-40) and the partitions (lines 29-32, 118).   *)
(***************************************************************************)
\* C16: whenever UnionEntries runs, every spawned thread has ended with its
\* multimap moved out and the mutex is free; when it starts, the partitions
\* hold every entry the threads inserted; and while it runs no thread takes
\* a step, no counter and no line changes, and the partitions change only
\* by the merge moving one entry to the output.
UnionAfterJoin ==
  [][/\ pc' = "union" =>
          /\ Len(wpc') = readersCount'
          /\ \A w \in 1..Len(wpc') :
               wpc'[w] = "done" /\ localEntries'[w] = <<>>
          /\ m_mutex' = 0
     /\ (pc = "spawn" /\ pc' = "union") =>
          /\ Len(taskEntries') = readersCount'
          /\ SumSizes(taskEntries') = stats'.m_numLoaded - stats0'.m_numLoaded
     /\ pc = "union" =>
          /\ wpc' = wpc
          /\ line' = line
          /\ localEntries' = localEntries
          /\ stats' = stats
          /\ cursor' = cursor
          /\ taskEntries' # taskEntries =>
               \/ /\ Len(entries') = Len(entries) + 1
                  /\ SumSizes(taskEntries') = SumSizes(taskEntries) - 1
               \/ /\ entries' = entries
                  /\ SumSizes(taskEntries') = SumSizes(taskEntries)]_vars

\* C16 witness: two threads have each handed over one entry and ended, and
\* the merge has moved the first entry out
UnionAfterJoinWitness ==
  /\ pc = "union"
  /\ readersCount = 2
  /\ wpc = <<"done", "done">>
  /\ Len(parts0) = 2
  /\ Len(parts0[1]) = 1
  /\ Len(parts0[2]) = 1
  /\ Len(entries) = 1
  /\ SumSizes(taskEntries) = 1

\* C17: while the threads run, the local multimap of thread w changes only
\* in a step of thread w, by the entry of the line it handles or by the
\* move of line 118; slot w of the partitions changes only in the step in
\* which thread w ends, to thread w's local multimap; and a thread that has
\* ended takes no further step, so the slot is written once.
OwnPartitionOnly ==
  [][(pc = "spawn" /\ pc' = "spawn") =>
       /\ Len(taskEntries') = readersCount
       /\ \A w \in Workers :
            /\ localEntries'[w] # localEntries[w] =>
                 \/ /\ wpc[w] = "parse"
                    /\ wpc'[w] = "lock"
                    /\ localEntries'[w] = EntriesAfter(line[w], localEntries[w])
                 \/ /\ wpc[w] = "move"
                    /\ wpc'[w] = "done"
                    /\ localEntries'[w] = <<>>
            /\ taskEntries'[w] # taskEntries[w] =>
                 /\ wpc[w] = "move"
                 /\ wpc'[w] = "done"
                 /\ taskEntries'[w] = localEntries[w]
            /\ (wpc[w] = "move" /\ wpc'[w] = "done") =>
                 /\ taskEntries'[w] = localEntries[w]
                 /\ \A v \in Workers \ {w} :
                      /\ taskEntries'[v] = taskEntries[v]
                      /\ localEntries'[v] = localEntries[v]
            /\ wpc[w] = "done" =>
                 /\ wpc'[w] = "done"
                 /\ taskEntries'[w] = taskEntries[w]
                 /\ localEntries'[w] = localEntries[w]]_vars

\* C17 witness: the first thread has ended and filled its slot while the
\* second thread, with an entry in its local multimap, still runs and its
\* slot is empty
OwnPartitionOnlyWitness ==
  /\ pc = "spawn"
  /\ Len(wpc) = 2
  /\ wpc[1] = "done"
  /\ wpc[2] = "move"
  /\ Len(taskEntries[1]) = 1
  /\ taskEntries[2] = <<>>
  /\ Len(localEntries[2]) = 1

\* C18: the mutex is held only by a thread inside the fetch: a thread that
\* waits for the mutex, handles its line (splits it, decodes it, counts,
\* inserts), moves its multimap out after the stream was exhausted, or has
\* ended does not hold it.
LockOnlyWhileFetching ==
  /\ m_mutex # 0 => (m_mutex \in Workers /\ wpc[m_mutex] = "getline")
  /\ \A w \in Workers :
       wpc[w] \in {"lock", "parse", "move", "done"} => m_mutex # w

\* C18 witness: the first thread handles a loadable line without the mutex
\* while the second thread holds it inside the fetch
LockOnlyWhileFetchingWitness ==
  /\ pc = "spawn"
  /\ Len(wpc) = 2
  /\ wpc = <<"parse", "getline">>
  /\ Loaded(line[1])
  /\ m_mutex = 2
  /\ cursor = 1

(***************************************************************************)
(* Further calls on the same reader (checked under SpecRuns).              *)
(***************************************************************************)
\* C19: a call that follows a returned call on the same reader returns an
\* empty vector and leaves the caller's stats as they were.
SecondCallEmpty ==
  \A i \in 2..Len(hist) :
    hist[i].reader = hist[i - 1].reader =>
      /\ hist[i].entries = <<>>
      /\ hist[i].stats = hist[i].stats0

\* What holds of C19: a call that follows, on the same reader, a returned
\* call that ran at least one thread returns an empty vector and leaves the
\* stats as they were.
SecondCallEmptyAfterRead ==
  \A i \in 2..Len(hist) :
    (hist[i].reader = hist[i - 1].reader /\ hist[i - 1].requested >= 1) =>
      /\ hist[i].entries = <<>>
      /\ hist[i].stats = hist[i].stats0

(***************************************************************************)
(* eye::Eye (src/metrics/eye.cpp).                                         *)
(*                                                                         *)
(* The variable |eye| is a record: epc is the File thread's position in    *)
(* the task it runs, op the registering operation it runs, ops the number  *)
(* of operations started (also Clock::now()), heap the Info objects made   *)
(* by make_shared, m_info the published object (an index of heap), info    *)
(* and editableInfo the operation's locals, storage what Storage holds,    *)
(* gui the tasks scheduled on the Gui thread, published the objects that   *)
(* m_info has pointed to.  The registering operations run on the File      *)
(* thread, one after the other (lines 349-454).                            *)
(***************************************************************************)
Ops ==
  {"RegisterTipClick", "UpdateBookingFilterUsedTime",
   "UpdateBoomarksCatalogShownTime", "UpdateDiscoveryShownTime",
   "IncrementDiscoveryItem", "RegisterLayerShown", "RegisterMapObjectEvent"}

\* Info: event counters and times of last use; m_mapObjects counts the events
EmptyInfo ==
  [m_tips |-> 0, m_booking |-> 0, m_bookmarks |-> 0,
   m_discovery |-> [m_lastOpenedTime |-> 0, m_eventCounters |-> 0],
   m_layers |-> 0, m_mapObjects |-> 0]

\* lines 25-50: what Load finds in the files
LoadedInfos == {EmptyInfo, [EmptyInfo EXCEPT !.m_mapObjects = 1]}

\* lines 77-87: the constructor publishes the loaded Info and schedules
\* TrimExpiredMapObjectEvents on the File thread
InitEye ==
  /\ InitReader(<<>>)
  /\ \E loaded \in LoadedInfos :
       eye = [epc |-> "trim", op |-> "none", ops |-> 0, heap |-> <<loaded>>,
              m_info |-> 1, info |-> 0, editableInfo |-> 0,
              storage |-> [info |-> loaded, events |-> loaded.m_mapObjects],
              gui |-> <<>>, published |-> {1}]

\* line 98: GetInfo returns m_info.Get()
GetInfo == eye.heap[eye.m_info]

\* lines 120-149: the copy loses its expired events; it is saved and
\* published only when something expired
TrimExpiredMapObjectEvents ==
  /\ eye.epc = "trim"
  /\ \E expired \in 0..GetInfo.m_mapObjects : \E ok \in BOOLEAN :
       LET editable == [GetInfo EXCEPT !.m_mapObjects = @ - expired]
           changed == expired > 0
       IN  eye' = IF changed /\ ok
                    THEN [eye EXCEPT !.epc = "idle",
                                     !.heap = Append(@, editable),
                                     !.storage.events = editable.m_mapObjects,
                                     !.m_info = Len(eye.heap) + 1,
                                     !.published = @ \cup {Len(eye.heap) + 1}]
                    ELSE [eye EXCEPT !.epc = "idle",
                                     !.heap = Append(@, editable)]
  /\ UNCHANGED readerVars

\* lines 153-154 (and 192-193, ..., 312-313): info = m_info.Get(),
\* editableInfo = make_shared<Info>(*info)
EyeGet(op) ==
  /\ eye.epc = "idle"
  /\ eye.ops < MaxEyeOps
  /\ eye' = [eye EXCEPT !.epc = "copied",
                        !.op = op,
                        !.ops = @ + 1,
                        !.info = eye.m_info,
                        !.heap = Append(@, GetInfo),
                        !.editableInfo = Len(eye.heap) + 1]
  /\ UNCHANGED readerVars

\* the edits of lines 155-176, 196, 216, 236, 255-256, 274-295, 314-332
EditBy(op, i, now) ==
  CASE op = "RegisterTipClick" -> [i EXCEPT !.m_tips = @ + 1]
    [] op = "UpdateBookingFilterUsedTime" -> [i EXCEPT !.m_booking = now]
    [] op = "UpdateBoomarksCatalogShownTime" -> [i EXCEPT !.m_bookmarks = now]
    [] op = "UpdateDiscoveryShownTime" ->
         [i EXCEPT !.m_discovery.m_lastOpenedTime = now]
    [] op = "IncrementDiscoveryItem" ->
         [i EXCEPT !.m_discovery.m_eventCounters = @ + 1]
    [] op = "RegisterLayerShown" -> [i EXCEPT !.m_layers = @ + 1]
    [] op = "RegisterMapObjectEvent" -> [i EXCEPT !.m_mapObjects = @ + 1]

\* a slip in line 154: editableInfo is the published object, not a copy
EyeEditInPlace ==
  /\ eye.epc = "copied"
  /\ eye' = [eye EXCEPT !.epc = "edited",
                        !.editableInfo = eye.info,
                        !.heap[eye.info] = EditBy(eye.op, @, eye.ops)]
  /\ UNCHANGED readerVars

\* the operation edits its copy
EyeEdit ==
  /\ eye.epc = "copied"
  /\ eye' = [eye EXCEPT !.epc = "edited",
                        !.heap[eye.editableInfo] = EditBy(eye.op, @, eye.ops)]
  /\ UNCHANGED readerVars

\* lines 113-114 and 178-179, or 334-335: Storage refuses, the operation
\* returns
EyeSaveFails ==
  /\ eye.epc = "edited"
  /\ eye' = [eye EXCEPT !.epc = "idle", !.op = "none", !.info = 0,
                        !.editableInfo = 0]
  /\ UNCHANGED readerVars

\* lines 52-57 under line 113, or lines 66-72 under line 334: Storage takes
\* the whole Info, or the one event
EyeSaveOk ==
  /\ eye.epc = "edited"
  /\ eye' = IF eye.op = "RegisterMapObjectEvent"
              THEN [eye EXCEPT !.epc = "saved", !.storage.events = @ + 1]
              ELSE [eye EXCEPT !.epc = "saved",
                               !.storage.info = eye.heap[eye.editableInfo]]
  /\ UNCHANGED readerVars

\* line 116, or line 337: m_info.Set(editableInfo)
EyeSet ==
  /\ eye.epc = "saved"
  /\ eye' = [eye EXCEPT !.epc = "published",
                        !.m_info = eye.editableInfo,
                        !.published = @ \cup {eye.editableInfo}]
  /\ UNCHANGED readerVars

\* lines 181-187 (and 201-207, ..., 338-344): RunTask(Thread::Gui, ...), the
\* operation returns
EyeRunTask ==
  /\ eye.epc = "published"
  /\ eye' = [eye EXCEPT !.epc = "idle", !.op = "none", !.info = 0,
                        !.editableInfo = 0, !.gui = Append(@, eye.op)]
  /\ UNCHANGED readerVars

\* the Gui thread runs the oldest task: the subscribers are notified
GuiRun ==
  /\ eye.epc # "none"
  /\ eye.gui # <<>>
  /\ eye' = [eye EXCEPT !.gui = Tail(@)]
  /\ UNCHANGED readerVars

NextEye ==
  \/ TrimExpiredMapObjectEvents
  \/ \E op \in Ops : EyeGet(op)
  \/ EyeEdit
  \/ EyeSaveFails
  \/ EyeSaveOk
  \/ EyeSet
  \/ EyeRunTask
  \/ GuiRun

SpecEye == InitEye /\ [][NextEye]_vars

\* C20: in every step of a registering operation: when persisting the
\* edited copy fails the operation returns with GetInfo's snapshot and the
\* Gui thread's tasks as they were; the snapshot changes only after the
\* copy was persisted, to the edited copy of the snapshot the operation
\* started from; a notification is scheduled only when that copy is already
\* published; and no object that was ever published changes.
EyeCopyOnWrite ==
  [][/\ (eye.epc = "edited" /\ eye'.epc = "idle") =>
          /\ eye'.m_info = eye.m_info
          /\ eye'.heap[eye'.m_info] = eye.heap[eye.m_info]
          /\ eye'.gui = eye.gui
     /\ (eye.op # "none" /\ eye'.m_info # eye.m_info) =>
          /\ eye.epc = "saved"
          /\ eye'.m_info = eye.editableInfo
          /\ eye.m_info = eye.info
          /\ eye'.heap[eye'.m_info] =
               EditBy(eye.op, eye.heap[eye.info], eye.ops)
     /\ Len(eye'.gui) > Len(eye.gui) =>
          /\ eye.epc = "published"
          /\ eye.m_info = eye.editableInfo
          /\ eye'.m_info = eye.m_info
          /\ eye'.gui = Append(eye.gui, eye.op)
     /\ \A i \in eye.published : eye'.heap[i] = eye.heap[i]]_vars

\* C20 witness: nothing had expired; the first operation's copy, the third
\* object, was persisted and published and its notification scheduled; the
\* second operation edited its copy, the fourth object, was refused by
\* Storage and returned
EyeCopyOnWriteWitness ==
  /\ eye.epc = "idle"
  /\ eye.ops = 2
  /\ Len(eye.heap) = 4
  /\ eye.m_info = 3
  /\ eye.published = {1, 3}
  /\ eye.heap[4] # eye.heap[3]
  /\ eye.heap[3] # eye.heap[1]
  /\ eye.gui = <<"RegisterTipClick">>
  /\ eye.storage.info = eye.heap[3]

=============================================================================
